---------------------------- MODULE Spec2Model ----------------------------
(***************************************************************************)
(* A model of the closed-form transforms of the repository:                *)
(*   wcs.py / wcs_transform.py   pixel <-> projection plane <-> native     *)
(*                               sphere <-> celestial sphere (TAN only)    *)
(*   leastsquares2d.py           the two-parameter least-squares fit       *)
(*   sparea.py                   the area of a spherical polygon           *)
(*                                                                         *)
(* Numbers.  The code computes in IEEE doubles.  The model computes in     *)
(* exact arithmetic over the numbers (n/d)*sqrt(m)*(pi/180)^p, n, p        *)
(* integers, d > 0, m square-free, extended by the three non-finite        *)
(* doubles that numpy produces on a division by zero (+inf, -inf, nan;     *)
(* encoded with d = 0).                                                    *)
(* Rounding is therefore not modelled: what is checked is the algebra,     *)
(* the branch (quadrant) selection, the order of the stages and the        *)
(* outcomes (return / raise) of every call.                                *)
(*                                                                         *)
(* Angles.  A float holding an angle is modelled by the point (cos, sin)   *)
(* of the unit circle it names, together with the number k of whole turns  *)
(* that separates it from its principal value in (-180, 180] degrees, and  *)
(* the unit ("deg" or "rad") the float is expressed in.                    *)
(***************************************************************************)
EXTENDS Integers, Sequences, FiniteSets, TLC

---------------------------------------------------------------------------
(* Integer helpers *)

Abs(i) == IF i < 0 THEN -i ELSE i

Sgn(i) == IF i < 0 THEN -1 ELSE IF i = 0 THEN 0 ELSE 1

RECURSIVE Euclid(_, _)
Euclid(a, b) == IF b = 0 THEN a ELSE Euclid(b, a % b)

GCD(a, b) == Euclid(Abs(a), Abs(b))

\* The integer square root of n >= 0, by bisection of lo .. hi
RECURSIVE Bisect(_, _, _)
Bisect(n, lo, hi) ==
    IF lo >= hi THEN lo
    ELSE LET mid == (lo + hi + 1) \div 2
         IN  IF mid * mid <= n THEN Bisect(n, mid, hi) ELSE Bisect(n, lo, mid - 1)

ISqrt(n) == Bisect(n, 0, IF n < 46340 THEN n ELSE 46340)

\* The largest s with s*s dividing n > 0: n = s*s*(a square-free number)
SquarePart(n) ==
    LET S == {s \in 1 .. ISqrt(n) : n % (s * s) = 0}
    IN  CHOOSE s \in S : \A t \in S : t <= s

---------------------------------------------------------------------------
(* Numbers: [n, d, m, p] is (n/d) * sqrt(m) * (pi/180)^p.                  *)
(* d = 0 marks a non-finite double.  The power p of pi/180 keeps degrees   *)
(* and radians apart: a length of q degrees on the projection plane is     *)
(* q * (180/pi) with p = -1 once expressed through its radian value q.     *)

Num(n, d, m, p) ==
    IF n = 0 THEN [n |-> 0, d |-> 1, m |-> 1, p |-> 0]
    ELSE LET g == GCD(n, d)
         IN  [n |-> Sgn(d) * (n \div g), d |-> Abs(d) \div g, m |-> m, p |-> p]

Rat(n, d) == Num(n, d, 1, 0)
Int2Num(i) == Num(i, 1, 1, 0)
Zero == Int2Num(0)
One == Int2Num(1)
\* np.pi/180 and 180/np.pi
PiOver180 == Num(1, 1, 1, 1)
D180OverPi == Num(1, 1, 1, -1)

PosInf == [n |-> 1, d |-> 0, m |-> 1, p |-> 0]
NegInf == [n |-> -1, d |-> 0, m |-> 1, p |-> 0]
NaN == [n |-> 0, d |-> 0, m |-> 1, p |-> 0]
\* A finite real that is not of the form (n/d)*sqrt(m)*(pi/180)^p: outside
\* the model's number domain.  Every operation propagates it, like a nan.
NotRep == [n |-> 0, d |-> 0, m |-> 0, p |-> 0]

IsFinite(a) == a.d > 0
IsNaN(a) == a.d = 0 /\ a.n = 0 /\ a.m = 1
IsInf(a) == a.d = 0 /\ a.n # 0
Sign(a) == Sgn(a.n)

Neg(a) == [a EXCEPT !.n = -a.n]

Mul(a, b) ==
    IF a = NotRep \/ b = NotRep THEN NotRep
    ELSE IF IsNaN(a) \/ IsNaN(b) THEN NaN
    ELSE IF IsInf(a) \/ IsInf(b)
         THEN IF Sign(a) * Sign(b) = 0 THEN NaN
              ELSE IF Sign(a) * Sign(b) > 0 THEN PosInf ELSE NegInf
    ELSE IF a.n = 0 \/ b.n = 0 THEN Zero
    ELSE LET g  == GCD(a.m, b.m)
             g1 == GCD(a.n, b.d)
             g2 == GCD(b.n, a.d)
             \* sqrt(ma)*sqrt(mb) = g*sqrt((ma/g)*(mb/g)) for square-free ma, mb
         IN  Num((a.n \div g1) * (b.n \div g2) * g,
                 (a.d \div g2) * (b.d \div g1),
                 (a.m \div g) * (b.m \div g),
                 a.p + b.p)

\* IEEE division as numpy performs it: x/0 is +-inf, 0/0 is nan (the sign of a
\* zero divisor is not modelled: zeros are unsigned here).
Div(a, b) ==
    IF a = NotRep \/ b = NotRep THEN NotRep
    ELSE IF IsNaN(a) \/ IsNaN(b) THEN NaN
    ELSE IF IsInf(b) THEN (IF IsInf(a) THEN NaN ELSE Zero)
    ELSE IF b.n = 0
         THEN IF Sign(a) = 0 THEN NaN
              ELSE IF Sign(a) > 0 THEN PosInf ELSE NegInf
    ELSE Mul(a, Num(b.d, b.n * b.m, b.m, -b.p))

Add(a, b) ==
    IF a = NotRep \/ b = NotRep THEN NotRep
    ELSE IF IsNaN(a) \/ IsNaN(b) THEN NaN
    ELSE IF IsInf(a) /\ IsInf(b) THEN (IF a = b THEN a ELSE NaN)
    ELSE IF IsInf(a) THEN a
    ELSE IF IsInf(b) THEN b
    ELSE IF a.n = 0 THEN b
    ELSE IF b.n = 0 THEN a
    ELSE IF a.m # b.m \/ a.p # b.p THEN NotRep
    ELSE LET g == GCD(a.d, b.d)
         IN  Num(a.n * (b.d \div g) + b.n * (a.d \div g), (a.d \div g) * b.d,
                 a.m, a.p)

Sub(a, b) == Add(a, Neg(b))

Sq(a) == Mul(a, a)

\* np.sqrt of a rational n/d in lowest terms: with n = sn*sn*mn and
\* d = sd*sd*md, sqrt(n/d) = (sn / (sd*md)) * sqrt(mn*md); nan below zero.
Sqrt(a) ==
    IF a = NotRep THEN NotRep
    ELSE IF IsNaN(a) THEN NaN
    ELSE IF IsInf(a) THEN (IF Sign(a) > 0 THEN PosInf ELSE NaN)
    ELSE IF Sign(a) < 0 THEN NaN
    ELSE IF a.m # 1 \/ a.p % 2 # 0 THEN NotRep
    ELSE IF a.n = 0 THEN Zero
    ELSE LET sn == SquarePart(a.n)
             sd == SquarePart(a.d)
             mn == a.n \div (sn * sn)
             md == a.d \div (sd * sd)
         IN  Num(sn, sd * md, mn * md, a.p \div 2)

---------------------------------------------------------------------------
(* Angles: [c, s, k, u] is the float whose value, in unit u, is the angle  *)
(* of the point (c, s) of the unit circle taken in (-180, 180] degrees,    *)
(* plus k whole turns.                                                     *)

Ang(c, s, k, u) == [c |-> c, s |-> s, k |-> k, u |-> u]
\* An angle outside the model's domain (a component is NotRep or nan, or a
\* float in degrees was used where radians are read).
NotRepAng == Ang(NotRep, NotRep, 0, "rad")

GoodAng(a) == IsFinite(a.c) /\ IsFinite(a.s)
MkAng(c, s, k, u) == IF IsFinite(c) /\ IsFinite(s) THEN Ang(c, s, k, u) ELSE NotRepAng

\* x * np.pi/180 and x * 180/np.pi on a float holding an angle
AngToRad(a) == IF GoodAng(a) /\ a.u = "deg" THEN [a EXCEPT !.u = "rad"] ELSE NotRepAng
AngToDeg(a) == IF GoodAng(a) /\ a.u = "rad" THEN [a EXCEPT !.u = "deg"] ELSE NotRepAng

\* np.sin, np.cos, np.tan read radians
Sin(a) == IF GoodAng(a) /\ a.u = "rad" THEN a.s ELSE NotRep
Cos(a) == IF GoodAng(a) /\ a.u = "rad" THEN a.c ELSE NotRep
\* tan of +-pi/2 is infinite in exact arithmetic (the double nearest to pi/2
\* has the finite tangent 1.6e16).
Tan(a) == Div(Sin(a), Cos(a))

\* Principal value in (0, 180] / in (-180, 0)
Upper(a) == Sign(a.s) > 0 \/ (Sign(a.s) = 0 /\ Sign(a.c) < 0)
Lower(a) == Sign(a.s) < 0

AngNeg(a) ==
    IF ~GoodAng(a) THEN NotRepAng
    ELSE IF Sign(a.s) = 0 /\ Sign(a.c) < 0 THEN [a EXCEPT !.k = -a.k - 1]
    ELSE [a EXCEPT !.s = Neg(a.s), !.k = -a.k]

\* a + b for two floats holding angles in the same unit
AngAdd(a, b) ==
    IF ~GoodAng(a) \/ ~GoodAng(b) \/ a.u # b.u THEN NotRepAng
    ELSE LET c == Sub(Mul(a.c, b.c), Mul(a.s, b.s))
             s == Add(Mul(a.s, b.c), Mul(a.c, b.s))
             carry == IF ~Lower(a) /\ ~Lower(b)
                      THEN IF Sign(s) < 0 \/ (Sign(s) = 0 /\ Sign(c) > 0 /\ Upper(a))
                           THEN 1 ELSE 0
                      ELSE IF Lower(a) /\ Lower(b)
                      THEN IF Sign(s) >= 0 THEN -1 ELSE 0
                      ELSE 0
         IN  MkAng(c, s, a.k + b.k + carry, a.u)

AngSub(a, b) == AngAdd(a, AngNeg(b))

\* np.arctan(y/x): the angle of arctan2 folded into the right half plane
ArcTanOfRatio(y, x) ==
    IF ~IsFinite(x) \/ ~IsFinite(y) THEN NotRepAng
    ELSE IF Sign(x) = 0 /\ Sign(y) = 0 THEN Ang(One, Zero, 0, "rad")
    ELSE LET r == Sqrt(Add(Sq(x), Sq(y)))
             f == Int2Num(IF Sign(x) < 0 THEN -1 ELSE 1)
         IN  MkAng(Div(Mul(f, x), r), Div(Mul(f, y), r), 0, "rad")

\* np.arctan2(y, x), in radians, in (-pi, pi]; arctan2(0, 0) = 0
ArcTan2(y, x) ==
    IF ~IsFinite(x) \/ ~IsFinite(y) THEN NotRepAng
    ELSE IF Sign(x) = 0 /\ Sign(y) = 0 THEN Ang(One, Zero, 0, "rad")
    ELSE LET r == Sqrt(Add(Sq(x), Sq(y)))
         IN  MkAng(Div(x, r), Div(y, r), 0, "rad")

\* np.arctan(t), in radians, in [-pi/2, pi/2]; arctan(+-inf) = +-pi/2
ArcTan(t) ==
    IF IsInf(t) THEN Ang(Zero, Int2Num(Sign(t)), 0, "rad")
    ELSE IF ~IsFinite(t) THEN NotRepAng
    ELSE LET r == Sqrt(Add(One, Sq(t)))
         IN  MkAng(Div(One, r), Div(t, r), 0, "rad")

\* np.arcsin(z), in radians, in [-pi/2, pi/2]; nan outside [-1, 1]
ArcSin(z) ==
    IF ~IsFinite(z) THEN NotRepAng
    ELSE MkAng(Sqrt(Sub(One, Sq(z))), z, 0, "rad")

\* Angles of the model's inputs, in degrees
Deg0 == Ang(One, Zero, 0, "deg")
Deg90 == Ang(Zero, One, 0, "deg")
Deg180 == Ang(Neg(One), Zero, 0, "deg")
DegM90 == Ang(Zero, Neg(One), 0, "deg")
Deg270 == Ang(Zero, Neg(One), 1, "deg")
\* atan(3/4) = 36.87 and atan(4/3) = 53.13 degrees
DegA34 == Ang(Rat(4, 5), Rat(3, 5), 0, "deg")
DegA43 == Ang(Rat(3, 5), Rat(4, 5), 0, "deg")

---------------------------------------------------------------------------
(* Outcomes of a call, headers, CTYPE strings *)

Return(a, b) == [kind |-> "return", a |-> a, b |-> b]
Raise(exc, what) == [kind |-> "raise", exc |-> exc, what |-> what]
Returned(o) == o.kind = "return"
Raised(o, exc) == o.kind = "raise" /\ o.exc = exc

\* A header is a mapping (dict or astropy Header) from key names to values;
\* hdr[key] on an absent key raises KeyError(key).
Has(hdr, key) == key \in DOMAIN hdr

RECURSIVE FirstMissing(_, _)
FirstMissing(hdr, keys) ==
    IF keys = <<>> THEN "none"
    ELSE IF ~Has(hdr, Head(keys)) THEN Head(keys)
    ELSE FirstMissing(hdr, Tail(keys))

\* A str is the sequence of its characters.
Dash == "-"
RECURSIVE IndexOf(_, _, _)
IndexOf(str, ch, i) ==
    IF i > Len(str) THEN 0
    ELSE IF str[i] = ch THEN i
    ELSE IndexOf(str, ch, i + 1)

\* str.split(sep) for a one-character separator
RECURSIVE Split(_, _)
Split(str, sep) ==
    LET i == IndexOf(str, sep, 1)
    IN  IF i = 0 THEN <<str>>
        ELSE <<SubSeq(str, 1, i - 1)>> \o Split(SubSeq(str, i + 1, Len(str)), sep)

parse_ctype(ctype_str) ==
    LET elements == Split(ctype_str, Dash)
    IN  [coordsys |-> elements[1], projection |-> elements[Len(elements)]]

TAN == <<"T", "A", "N">>
SIN == <<"S", "I", "N">>
RA_TAN == <<"R", "A", "-", "-", "-", "T", "A", "N">>
DEC_TAN == <<"D", "E", "C", "-", "-", "T", "A", "N">>
RA_SIN == <<"R", "A", "-", "-", "-", "S", "I", "N">>
DEC_SIN == <<"D", "E", "C", "-", "-", "S", "I", "N">>

---------------------------------------------------------------------------
(* wcs.py *)

\* hdr.get('CUNIT1'), hdr.get('CUNIT2') never raise and their values are
\* not used: the stages read the keys below, in this order of evaluation.
LinearKeysFwd == <<"CD1_1", "CRPIX1", "CD1_2", "CRPIX2", "CD2_1", "CD2_2">>
LinearKeysInv == <<"CD1_1", "CD2_2", "CD1_2", "CD2_1", "CRPIX1", "CRPIX2">>
CtypeKeys == <<"CTYPE1", "CTYPE2">>
CrvalKeys == <<"CRVAL1", "CRVAL2">>

pix2proj(x, y, hdr) ==
    LET miss == FirstMissing(hdr, LinearKeysFwd)
    IN  IF miss # "none" THEN Raise("KeyError", miss)
        ELSE LET dx == Sub(x, hdr["CRPIX1"])
                 dy == Sub(y, hdr["CRPIX2"])
                 xp == Add(Mul(hdr["CD1_1"], dx), Mul(hdr["CD1_2"], dy))
                 yp == Add(Mul(hdr["CD2_1"], dx), Mul(hdr["CD2_2"], dy))
             IN  Return(xp, yp)

\* proj2pix with the off-diagonal entries of the matrix exchanged
proj2pix_transposed(xp, yp, hdr, isnp) ==
    LET miss == FirstMissing(hdr, LinearKeysInv)
    IN  IF miss # "none" THEN Raise("KeyError", miss)
        ELSE LET c  == Sub(Mul(hdr["CD1_1"], hdr["CD2_2"]),
                           Mul(hdr["CD1_2"], hdr["CD2_1"]))
                 nx == Sub(Mul(hdr["CD2_2"], xp), Mul(hdr["CD2_1"], yp))
                 ny == Add(Mul(Neg(hdr["CD1_2"]), xp), Mul(hdr["CD1_1"], yp))
             IN  IF Sign(c) = 0 /\ IsFinite(c) /\ ~isnp
                 THEN Raise("ZeroDivisionError", "float division by zero")
                 ELSE Return(Add(Div(nx, c), hdr["CRPIX1"]),
                             Add(Div(ny, c), hdr["CRPIX2"]))

\* wcs.py 124-125 (wcs_transform.py 55-56): r = sqrt(xp**2 + yp**2) on the
\* radian coordinates, then the quotient 1/r handed to arctan.  There is no
\* test of r before the division; numpy's float division by 0.0 gives inf.
Radius(xr, yr) == Sqrt(Add(Sq(xr), Sq(yr)))
InverseRadius(xr, yr) == Div(One, Radius(xr, yr))

\* isnp: xp or yp is a numpy value (np.float64, ndarray) rather than a Python
\* float; the header's values are Python floats.  A Python float divided by
\* the Python float 0.0 raises ZeroDivisionError, a numpy value divided by it
\* is +-inf or nan (with a RuntimeWarning).
proj2pix(xp, yp, hdr, isnp) ==
    LET miss == FirstMissing(hdr, LinearKeysInv)
    IN  IF miss # "none" THEN Raise("KeyError", miss)
        ELSE LET c  == Sub(Mul(hdr["CD1_1"], hdr["CD2_2"]),
                           Mul(hdr["CD1_2"], hdr["CD2_1"]))
                 nx == Sub(Mul(hdr["CD2_2"], xp), Mul(hdr["CD1_2"], yp))
                 ny == Add(Mul(Neg(hdr["CD2_1"]), xp), Mul(hdr["CD1_1"], yp))
             IN  IF Sign(c) = 0 /\ IsFinite(c) /\ ~isnp
                 THEN Raise("ZeroDivisionError", "float division by zero")
                 ELSE Return(Add(Div(nx, c), hdr["CRPIX1"]),
                             Add(Div(ny, c), hdr["CRPIX2"]))

proj2natsph(xp, yp, hdr) ==
    LET xr == Mul(xp, PiOver180)
        yr == Mul(yp, PiOver180)
        miss == FirstMissing(hdr, CtypeKeys)
    IN  IF miss # "none" THEN Raise("KeyError", miss)
        ELSE LET projection1 == parse_ctype(hdr["CTYPE1"]).projection
                 projection2 == parse_ctype(hdr["CTYPE2"]).projection
                 projection == projection1
             IN  IF projection = TAN
                 THEN LET \* -yp is -0.0 when yp is 0.0, and arctan2(0.0, -0.0) is pi
                          phi == IF Sign(xr) = 0 /\ Sign(yr) = 0
                                 THEN Ang(Neg(One), Zero, 0, "rad")
                                 ELSE ArcTan2(xr, Neg(yr))
                          r == Sqrt(Add(Sq(xr), Sq(yr)))
                          theta == ArcTan(Div(One, r))
                      IN  Return(AngToDeg(phi), AngToDeg(theta))
                 \* phi, theta = None, None; then phi *= 180/np.pi
                 ELSE Raise("TypeError", "NoneType *= float")

natsph2proj(phi, theta, hdr) ==
    LET ph == AngToRad(phi)
        th == AngToRad(theta)
        miss == FirstMissing(hdr, CtypeKeys)
    IN  IF miss # "none" THEN Raise("KeyError", miss)
        ELSE LET projection1 == parse_ctype(hdr["CTYPE1"]).projection
                 projection2 == parse_ctype(hdr["CTYPE2"]).projection
                 projection == projection1
             IN  IF projection = TAN
                 THEN LET r == Div(One, Tan(th))
                          xp == Mul(r, Sin(ph))
                          yp == Mul(Neg(r), Cos(ph))
                      IN  Return(Mul(xp, D180OverPi), Mul(yp, D180OverPi))
                 \* xp, yp = None, None; then xp *= 180/np.pi
                 ELSE Raise("TypeError", "NoneType *= float")

\* (C&G02 eq.2) and (C&G02 eq.5): the same rotation, about the pole
\* (lon_p, lat_p) with the longitude offset by off0 before and off1 after.
Rotate(lon0, lat0, off0, lat_p, off1) ==
    LET d == AngSub(lon0, off0)
        y == Mul(Neg(Cos(lat0)), Sin(d))
        x == Sub(Mul(Sin(lat0), Cos(lat_p)),
                 Mul(Mul(Cos(lat0), Sin(lat_p)), Cos(d)))
        z == Add(Mul(Sin(lat0), Sin(lat_p)),
                 Mul(Mul(Cos(lat0), Cos(lat_p)), Cos(d)))
    IN  Return(AngToDeg(AngAdd(off1, ArcTan2(y, x))), AngToDeg(ArcSin(z)))

natsph2celsph(phi, theta, hdr) ==
    LET ph == AngToRad(phi)
        th == AngToRad(theta)
        miss == FirstMissing(hdr, CtypeKeys)
    IN  IF miss # "none" THEN Raise("KeyError", miss)
        ELSE LET projection == parse_ctype(hdr["CTYPE1"]).projection
             IN  IF projection = TAN
                 THEN LET missv == FirstMissing(hdr, CrvalKeys)
                      IN  IF missv # "none" THEN Raise("KeyError", missv)
                          ELSE LET lon_p == AngToRad(hdr["CRVAL1"])
                                   lat_p == AngToRad(hdr["CRVAL2"])
                                   phi_p == AngToRad(Deg180)
                               IN  Rotate(ph, th, phi_p, lat_p, lon_p)
                 \* lon_p, lat_p, phi_p = None, None, None; then phi - phi_p
                 ELSE Raise("TypeError", "float - NoneType")

celsph2natsph(lon, lat, hdr) ==
    LET lo == AngToRad(lon)
        la == AngToRad(lat)
        miss == FirstMissing(hdr, CtypeKeys)
    IN  IF miss # "none" THEN Raise("KeyError", miss)
        ELSE LET projection == parse_ctype(hdr["CTYPE1"]).projection
             IN  IF projection = TAN
                 THEN LET missv == FirstMissing(hdr, CrvalKeys)
                      IN  IF missv # "none" THEN Raise("KeyError", missv)
                          ELSE LET lon_p == AngToRad(hdr["CRVAL1"])
                                   lat_p == AngToRad(hdr["CRVAL2"])
                                   phi_p == AngToRad(Deg180)
                               IN  Rotate(lo, la, lon_p, lat_p, phi_p)
                 \* lon_p, lat_p, phi_p = None, None, None; then lon - lon_p
                 ELSE Raise("TypeError", "float - NoneType")

---------------------------------------------------------------------------
(* wcs_transform.py: the earlier module.  It reads lower-case keys, takes   *)
(* TAN for granted (CTYPE is never read) and has no "import numpy as np":   *)
(* np is a global the file itself never binds.  bound says whether the      *)
(* module's namespace holds np when the function runs; without it the first *)
(* evaluation of np raises NameError.                                       *)

LowLinearKeysFwd == <<"cd1_1", "crpix1", "cd1_2", "crpix2", "cd2_1", "cd2_2">>
LowLinearKeysInv == <<"cd1_1", "cd2_2", "cd1_2", "cd2_1", "crpix1", "crpix2">>
LowCrvalKeys == <<"crval1", "crval2">>

wt_pix2proj(x, y, hdr) ==
    LET miss == FirstMissing(hdr, LowLinearKeysFwd)
    IN  IF miss # "none" THEN Raise("KeyError", miss)
        ELSE LET dx == Sub(x, hdr["crpix1"])
                 dy == Sub(y, hdr["crpix2"])
                 u == Add(Mul(hdr["cd1_1"], dx), Mul(hdr["cd1_2"], dy))
                 v == Add(Mul(hdr["cd2_1"], dx), Mul(hdr["cd2_2"], dy))
             IN  Return(u, v)

wt_proj2pix(u, v, hdr, isnp) ==
    LET miss == FirstMissing(hdr, LowLinearKeysInv)
    IN  IF miss # "none" THEN Raise("KeyError", miss)
        ELSE LET c  == Sub(Mul(hdr["cd1_1"], hdr["cd2_2"]),
                           Mul(hdr["cd1_2"], hdr["cd2_1"]))
                 nx == Sub(Mul(hdr["cd2_2"], u), Mul(hdr["cd1_2"], v))
                 ny == Add(Mul(Neg(hdr["cd2_1"]), u), Mul(hdr["cd1_1"], v))
             IN  IF Sign(c) = 0 /\ IsFinite(c) /\ ~isnp
                 THEN Raise("ZeroDivisionError", "float division by zero")
                 ELSE Return(Add(Div(nx, c), hdr["crpix1"]),
                             Add(Div(ny, c), hdr["crpix2"]))

wt_proj2natsph(u, v, bound) ==
    IF ~bound THEN Raise("NameError", "np")
    ELSE LET ur == Mul(u, PiOver180)
             vr == Mul(v, PiOver180)
             p == IF Sign(ur) = 0 /\ Sign(vr) = 0
                  THEN Ang(Neg(One), Zero, 0, "rad")
                  ELSE ArcTan2(ur, Neg(vr))
             t == ArcTan(InverseRadius(ur, vr))
         IN  Return(AngToDeg(p), AngToDeg(t))

wt_natsph2proj(p, t, bound) ==
    IF ~bound THEN Raise("NameError", "np")
    ELSE LET pr == AngToRad(p)
             tr == AngToRad(t)
             r == Div(One, Tan(tr))
             u == Mul(r, Sin(pr))
             v == Mul(Neg(r), Cos(pr))
         IN  Return(Mul(u, D180OverPi), Mul(v, D180OverPi))

wt_natsph2celsph(p, t, hdr, bound) ==
    LET miss == FirstMissing(hdr, LowCrvalKeys)
    IN  IF miss # "none" THEN Raise("KeyError", miss)
        ELSE IF ~bound THEN Raise("NameError", "np")
        ELSE Rotate(AngToRad(p), AngToRad(t), AngToRad(Deg180),
                    AngToRad(hdr["crval2"]), AngToRad(hdr["crval1"]))

wt_celsph2natsph(a, d, hdr, bound) ==
    LET miss == FirstMissing(hdr, LowCrvalKeys)
    IN  IF miss # "none" THEN Raise("KeyError", miss)
        ELSE IF ~bound THEN Raise("NameError", "np")
        ELSE Rotate(AngToRad(a), AngToRad(d), AngToRad(hdr["crval1"]),
                    AngToRad(hdr["crval2"]), AngToRad(Deg180))

---------------------------------------------------------------------------
(* leastsquares2d.py: x, y, z are numpy arrays of one length, modelled as   *)
(* sequences of numbers.  numpy's division yields inf or nan on a zero      *)
(* divisor and goes on.                                                     *)

ReturnScalar(a) == [kind |-> "scalar", a |-> a]

\* the mask with every sample selected
MaskAll(x, y) == [n \in DOMAIN x |-> TRUE]

\* i = x != y
Mask(x, y) == [n \in DOMAIN x |-> x[n] # y[n]]

\* np.sum(i): the number of selected samples
Count(i) == Cardinality({n \in DOMAIN i : i[n]})

\* np.sum(u[i]*v[i]), the first n samples
RECURSIVE SumProd(_, _, _, _)
SumProd(u, v, i, n) ==
    IF n = 0 THEN Zero
    ELSE Add(SumProd(u, v, i, n - 1), IF i[n] THEN Mul(u[n], v[n]) ELSE Zero)

leastsquares2d(x, y, z) ==
    LET i == Mask(x, y)
    IN  IF Count(i) = 0 THEN ReturnScalar(NaN)
        ELSE LET sx  == SumProd(x, x, i, Len(x))
                 sxy == SumProd(x, y, i, Len(x))
                 sxz == SumProd(x, z, i, Len(x))
                 sy  == SumProd(y, y, i, Len(x))
                 syz == SumProd(y, z, i, Len(x))
                 a == Div(Sub(sxz, Div(Mul(sxy, syz), sy)),
                          Sub(sx, Div(Sq(sxy), sy)))
                 b == Div(Sub(sxz, Mul(a, sx)), sxy)
             IN  Return(a, b)

---------------------------------------------------------------------------
(* sparea.py.  The file binds neither np nor gcdist: both are globals of    *)
(* the module that something else has to provide.                           *)
(*                                                                          *)
(* Angles in radians are whole multiples of pi/48 (3.75 degrees) here, so   *)
(* that the halves and quarters the code takes stay exact on the model's    *)
(* vertices.  The tangents and the arctangent of L'Huilier's formula are    *)
(* not evaluated: the product of four tangents is kept as the sorted list   *)
(* of its four arguments and the excess E = 4*arctan(sqrt(product)) as the  *)
(* number of that list, a positive real the model does not know, unless an  *)
(* argument is 0 (tan is 0, E is 0).  A sum of signed excesses is a map     *)
(* from those numbers to integer coefficients.                              *)

PiUnits == 48

\* x * np.pi / 180 for x a multiple of 15 degrees
ToRadians(x) == (x * 4) \div 15

\* cos and sin of k*pi/48 for k a multiple of 12 (45 degrees)
CosOctant == <<One, Num(1, 2, 2, 0), Zero, Num(-1, 2, 2, 0),
               Neg(One), Num(-1, 2, 2, 0), Zero, Num(1, 2, 2, 0)>>
CosU(k) == CosOctant[((k % 96) \div 12) + 1]
SinU(k) == CosU(k - 24)
\* arccos on the cosines of the multiples of 15 degrees the model meets;
\* -1 stands for an angle that is no such multiple
ArcCosU(c) ==
    CASE c = One -> 0
      [] c = Num(1, 2, 2, 0) -> 12
      [] c = Rat(1, 2) -> 16
      [] c = Zero -> 24
      [] c = Rat(-1, 2) -> 32
      [] c = Num(-1, 2, 2, 0) -> 36
      [] c = Neg(One) -> 48
      [] OTHER -> -1

\* The great-circle distance of (lon1, lat1) and (lon2, lat2), in radians:
\* cos l = sin(lat1) sin(lat2) + cos(lat1) cos(lat2) cos(lon2 - lon1)
gcdist(lon1, lat1, lon2, lat2) ==
    ArcCosU(Add(Mul(SinU(lat1), SinU(lat2)),
                Mul(Mul(CosU(lat1), CosU(lat2)), CosU(lon2 - lon1))))

\* term[term<0] = 0
Clamp(t) == IF t < 0 THEN 0 ELSE t

\* the sorted list of the arguments of a product of tangents
RECURSIVE Insert(_, _)
Insert(k, f) ==
    IF f = <<>> THEN <<k>>
    ELSE IF k <= Head(f) THEN <<k>> \o f
    ELSE <<Head(f)>> \o Insert(k, Tail(f))
Sorted4(a, b, c, d) == Insert(a, Insert(b, Insert(c, <<d>>)))

\* np.tan(a) * np.tan(b) * np.tan(c) * np.tan(d): <<0>> when an argument is
\* a multiple of pi, <<-1>> (not known) at an odd multiple of pi/2 or when
\* the product is negative (sqrt gives nan), else the sorted arguments
TanProduct(a, b, c, d) ==
    LET f == Sorted4(a % PiUnits, b % PiUnits, c % PiUnits, d % PiUnits)
        negatives == Cardinality({n \in 1 .. 4 : f[n] > PiUnits \div 2})
    IN  IF \E n \in 1 .. 4 : f[n] = 0 THEN <<0>>
        ELSE IF \E n \in 1 .. 4 : f[n] = PiUnits \div 2 THEN <<-1>>
        ELSE IF negatives % 2 = 1 THEN <<-1>>
        ELSE f

\* 4 * np.arctan(np.sqrt(result)): 0, nan (-1) or the number of the
\* positive excess that the product result stands for
Excess(result) ==
    IF Len(result) = 1 THEN result[1]
    ELSE ((result[1] * PiUnits + result[2]) * PiUnits + result[3]) * PiUnits + result[4]

\* Sums of signed excesses: [e -> c] is the sum of c * E(e); NaNSum is nan
NaNSum == [e \in {-1} |-> 1]
Coef(v, e) == IF e \in DOMAIN v THEN v[e] ELSE 0
Plus(v, c, e) ==
    IF v = NaNSum \/ e = -1 THEN NaNSum
    ELSE IF e = 0 THEN v
    ELSE LET w == [x \in DOMAIN v \cup {e} |-> Coef(v, x) + (IF x = e THEN c ELSE 0)]
         IN  [x \in {y \in DOMAIN w : w[y] # 0} |-> w[x]]
Times(v, c) ==
    IF v = NaNSum THEN NaNSum
    ELSE IF c = 0 THEN <<>>
    ELSE [x \in DOMAIN v |-> v[x] * c]
Least(v) == CHOOSE e \in DOMAIN v : \A x \in DOMAIN v : e <= x
\* A < 0.  Every excess is positive, so a sum whose coefficients have one
\* sign has that sign; of a sum v with both signs, mixed tells whether the
\* one of v and -v whose least excess has a positive coefficient is negative.
IsNegative(v, mixed) ==
    IF v = NaNSum \/ DOMAIN v = {} THEN FALSE
    ELSE IF \A e \in DOMAIN v : v[e] > 0 THEN FALSE
    ELSE IF \A e \in DOMAIN v : v[e] < 0 THEN TRUE
    ELSE IF v[Least(v)] > 0 THEN mixed ELSE ~mixed

\* np.sum(sign * E) over the first n edges
RECURSIVE SignedSum(_, _, _)
SignedSum(sign, E, n) ==
    IF n = 0 THEN <<>>
    ELSE Plus(SignedSum(sign, E, n - 1), sign[n], E[n])

\* the function without its last statements: A is returned with its sign
sparea_signed(lon, lat, R, units, np_ok, gcdist_ok, mixed) ==
    IF ~np_ok THEN Raise("NameError", "np")
    ELSE IF Len(lon) = 0 THEN Raise("IndexError", "index -1 is out of bounds")
    ELSE LET open == lon[Len(lon)] # lon[1] \/ lat[Len(lat)] # lat[1]
             lonc == IF open THEN Append(lon, lon[1]) ELSE lon
             latc == IF open THEN Append(lat, lat[1]) ELSE lat
             lonr == IF units = "deg" THEN [n \in DOMAIN lonc |-> ToRadians(lonc[n])] ELSE lonc
             latr == IF units = "deg" THEN [n \in DOMAIN latc |-> ToRadians(latc[n])] ELSE latc
             edges == 1 .. (Len(lonr) - 1)
         IN  IF ~gcdist_ok THEN Raise("NameError", "gcdist")
             ELSE LET l == [n \in edges |-> gcdist(lonr[n], latr[n], lonr[n + 1], latr[n + 1])]
                      s == [n \in edges |-> (l[n] + PiUnits + latr[n] + latr[n + 1]) \div 2]
                      term1 == [n \in edges |->
                                  Clamp((s[n] - (PiUnits \div 2 + latr[n])) \div 2)]
                      term2 == [n \in edges |->
                                  Clamp((s[n] - (PiUnits \div 2 + latr[n + 1])) \div 2)]
                      result == [n \in edges |->
                                   TanProduct(s[n] \div 2, (s[n] - l[n]) \div 2,
                                              term1[n], term2[n])]
                      E == [n \in edges |-> Excess(result[n])]
                      sign == [n \in edges |-> 2 * (IF lonr[n + 1] < lonr[n] THEN 1 ELSE 0) - 1]
                      A == Times(SignedSum(sign, E, Len(lonr) - 1), R * R)
                  IN  ReturnScalar([sum |-> A, p |-> IF units = "deg" THEN -2 ELSE 0])

sparea(lon, lat, R, units, np_ok, gcdist_ok, mixed) ==
    IF ~np_ok THEN Raise("NameError", "np")
    ELSE IF Len(lon) = 0 THEN Raise("IndexError", "index -1 is out of bounds")
    ELSE LET open == lon[Len(lon)] # lon[1] \/ lat[Len(lat)] # lat[1]
             lonc == IF open THEN Append(lon, lon[1]) ELSE lon
             latc == IF open THEN Append(lat, lat[1]) ELSE lat
             lonr == IF units = "deg" THEN [n \in DOMAIN lonc |-> ToRadians(lonc[n])] ELSE lonc
             latr == IF units = "deg" THEN [n \in DOMAIN latc |-> ToRadians(latc[n])] ELSE latc
             edges == 1 .. (Len(lonr) - 1)
         IN  IF ~gcdist_ok THEN Raise("NameError", "gcdist")
             ELSE LET l == [n \in edges |-> gcdist(lonr[n], latr[n], lonr[n + 1], latr[n + 1])]
                      s == [n \in edges |-> (l[n] + PiUnits + latr[n] + latr[n + 1]) \div 2]
                      term1 == [n \in edges |->
                                  Clamp((s[n] - (PiUnits \div 2 + latr[n])) \div 2)]
                      term2 == [n \in edges |->
                                  Clamp((s[n] - (PiUnits \div 2 + latr[n + 1])) \div 2)]
                      result == [n \in edges |->
                                   TanProduct(s[n] \div 2, (s[n] - l[n]) \div 2,
                                              term1[n], term2[n])]
                      E == [n \in edges |-> Excess(result[n])]
                      sign == [n \in edges |-> 2 * (IF lonr[n + 1] < lonr[n] THEN 1 ELSE 0) - 1]
                      A == Times(SignedSum(sign, E, Len(lonr) - 1), R * R)
                      scale == IF units = "deg" THEN -2 ELSE 0
                  IN  IF IsNegative(A, mixed)
                      THEN ReturnScalar([sum |-> Times(A, -1), p |-> scale])
                      ELSE ReturnScalar([sum |-> A, p |-> scale])

---------------------------------------------------------------------------
(* The inputs of the model *)

\* Pixel coordinates are the integers 0 .. MaxPix.
MaxPix == 2
Pixels == {Int2Num(i) : i \in 0 .. MaxPix}

\* q degrees per pixel, written through the radian value n/4 of q
Cd(n) == Num(n, 4, 1, -1)
\* <<CD1_1, CD1_2, CD2_1, CD2_2>>: a scaling, a reflection of the first axis,
\* a rotation with unequal scales, a shear; then two singular matrices.
RegularCDs == { <<Cd(1), Cd(0), Cd(0), Cd(1)>>, <<Cd(-1), Cd(0), Cd(0), Cd(1)>>,
                <<Cd(0), Cd(-2), Cd(1), Cd(0)>>, <<Cd(1), Cd(1), Cd(0), Cd(2)>> }
SingularCDs == { <<Cd(1), Cd(2), Cd(2), Cd(4)>>, <<Cd(0), Cd(0), Cd(0), Cd(0)>> }
CRPIXs == { <<Int2Num(1), Int2Num(2)>> }
\* <<CRVAL1, CRVAL2>>: the reference point on the equator, at a general
\* place, at either celestial pole, and past 180 degrees of longitude
CRVALs == { <<Deg0, Deg0>>, <<DegA43, DegA34>>, <<Deg270, Deg90>>,
            <<DegA43, DegM90>>, <<Deg270, DegA34>> }

MkHdr(crpix, cd, crval1, crval2, ctype1, ctype2) ==
    [CRPIX1 |-> crpix[1], CRPIX2 |-> crpix[2],
     CD1_1 |-> cd[1], CD1_2 |-> cd[2], CD2_1 |-> cd[3], CD2_2 |-> cd[4],
     CRVAL1 |-> crval1, CRVAL2 |-> crval2,
     CTYPE1 |-> ctype1, CTYPE2 |-> ctype2]

RequiredKeys == {"CRPIX1", "CRPIX2", "CD1_1", "CD1_2", "CD2_1", "CD2_2",
                 "CRVAL1", "CRVAL2", "CTYPE1", "CTYPE2"}
OptionalKeys == {"CUNIT1", "CUNIT2"}

Without(h, key) == [x \in DOMAIN h \ {key} |-> h[x]]
WithCunit(h) == [x \in DOMAIN h \cup OptionalKeys |->
                    IF x \in OptionalKeys THEN <<"d", "e", "g">> ELSE h[x]]

TanHeaders == { MkHdr(crpix, cd, v[1], v[2], RA_TAN, DEC_TAN) :
                  crpix \in CRPIXs, cd \in RegularCDs \cup SingularCDs, v \in CRVALs }
\* One header of each kind of defect, around two complete TAN headers
SampleHeaders == { MkHdr(<<Int2Num(1), Int2Num(2)>>, cd, DegA43, DegA34, RA_TAN, DEC_TAN) :
                     cd \in { <<Cd(1), Cd(1), Cd(0), Cd(2)>>, <<Cd(1), Cd(2), Cd(2), Cd(4)>> } }
OtherProjection(h) == { [h EXCEPT !.CTYPE1 = c[1], !.CTYPE2 = c[2]] :
                          c \in { <<RA_SIN, DEC_SIN>>, <<RA_TAN, DEC_SIN>>, <<RA_SIN, DEC_TAN>> } }
Headers == TanHeaders
           \cup UNION { OtherProjection(h) : h \in SampleHeaders }
           \cup { Without(h, key) : h \in SampleHeaders, key \in RequiredKeys }
           \cup { Without(hh, key) : hh \in UNION { OtherProjection(h) : h \in SampleHeaders },
                                     key \in {"CRVAL1", "CRVAL2"} }
           \cup { WithCunit(h) : h \in SampleHeaders }

\* The same header under wcs_transform.py's lower-case key names
LowerKey == [CRPIX1 |-> "crpix1", CRPIX2 |-> "crpix2", CD1_1 |-> "cd1_1",
             CD1_2 |-> "cd1_2", CD2_1 |-> "cd2_1", CD2_2 |-> "cd2_2",
             CRVAL1 |-> "crval1", CRVAL2 |-> "crval2", CTYPE1 |-> "ctype1",
             CTYPE2 |-> "ctype2", CUNIT1 |-> "cunit1", CUNIT2 |-> "cunit2"]
LowerCased(h) == [k \in {LowerKey[x] : x \in DOMAIN h} |->
                    h[CHOOSE x \in DOMAIN h : LowerKey[x] = k]]

\* Projection-plane coordinates, native and celestial angles for direct calls
PlaneCoords == {Cd(i) : i \in -1 .. MaxPix}
Longitudes == {Deg0, Deg90, Deg180, DegM90, DegA43}
Latitudes == {Deg0, DegA34, DegA43, Deg90, DegM90}

\* Samples of the fit: up to MaxSamples triples (x, y, z)
MaxSamples == 3
XValues == {0, 1, 2}
YValues == {0, 1}
ZValues == {-1, 0, 1}
Arrays(V, n) == [1 .. n -> {Int2Num(v) : v \in V}]

\* Polygons of sparea: up to MaxVertices vertices (lon, lat), in degrees, on
\* the equator and on the parallel of 45 degrees, no edge through a pole
MaxVertices == 4
LonValues == {0, 90, 270}
LatValues == {0, 45}
Radii == {1, 2}
Lists(V, n) == [1 .. n -> V]
ThroughPole(lon, lat) ==
    \E n \in DOMAIN lon :
        LET m == IF n = Len(lon) THEN 1 ELSE n + 1
        IN  Abs(lon[n] - lon[m]) = 180
Polygons == UNION { {<<lon, lat>> : lon \in Lists(LonValues, n), lat \in Lists(LatValues, n)} :
                    n \in 0 .. MaxVertices }
InUnits(list, units) ==
    IF units = "deg" THEN list ELSE [n \in DOMAIN list |-> ToRadians(list[n])]

---------------------------------------------------------------------------
(* The state of one session: a module, a header, and the calls made.       *)

VARIABLES
    impl,      \* the module whose functions are called: "wcs", "wcs_transform",
               \* "leastsquares2d", "sparea"
    np_bound,  \* whether the name np is bound in that module's namespace
    gcdist_bound, \* whether the name gcdist is (sparea.py calls it)
    mixed,     \* the sign of a sum of excesses of both signs (see IsNegative)
    hdr,       \* the header passed to every call
    fn,        \* the function the caller has called ("none" before any call)
    args,      \* its two coordinate arguments
    isnp,      \* whether the coordinates at hand are numpy values
    pc,        \* "idle", "done", or the line of pix2world / world2pix to run next
    cur,       \* the pair of locals the running pipeline holds
    calls,     \* the stage calls the running pipeline has made, with arguments
    result,    \* the outcome of the call, once it has ended
    origin     \* the call whose result this call was given as its arguments

vars == <<impl, np_bound, gcdist_bound, mixed, hdr, fn, args, isnp, pc, cur, calls, result, origin>>

Pending == [kind |-> "none"]
NoCall == [fn |-> "none"]
StageCall(f, a, b) == [fn |-> f, a |-> a, b |-> b]

WcsModules == {"wcs", "wcs_transform"}

Init ==
    /\ impl \in WcsModules
    \* wcs.py line 1 imports numpy as np; wcs_transform.py never binds np
    /\ np_bound \in (IF impl = "wcs" THEN {TRUE} ELSE BOOLEAN)
    /\ gcdist_bound = FALSE
    /\ mixed = FALSE
    /\ hdr \in (IF impl = "wcs" THEN Headers ELSE {LowerCased(h) : h \in Headers})
    /\ fn = "none"
    /\ args = <<Zero, Zero>>
    /\ isnp = FALSE
    /\ pc = "idle"
    /\ cur = <<Zero, Zero>>
    /\ calls = <<>>
    /\ result = Pending
    /\ origin = NoCall

\* Each stage function of the module in use, applied to (a, b)
Run_pix2proj(a, b, np) ==
    IF impl = "wcs" THEN pix2proj(a, b, hdr) ELSE wt_pix2proj(a, b, hdr)
Run_proj2pix(a, b, np) ==
    IF impl = "wcs" THEN proj2pix(a, b, hdr, np) ELSE wt_proj2pix(a, b, hdr, np)
Run_proj2natsph(a, b, np) ==
    IF impl = "wcs" THEN proj2natsph(a, b, hdr) ELSE wt_proj2natsph(a, b, np_bound)
Run_natsph2proj(a, b, np) ==
    IF impl = "wcs" THEN natsph2proj(a, b, hdr) ELSE wt_natsph2proj(a, b, np_bound)
Run_natsph2celsph(a, b, np) ==
    IF impl = "wcs" THEN natsph2celsph(a, b, hdr) ELSE wt_natsph2celsph(a, b, hdr, np_bound)
Run_celsph2natsph(a, b, np) ==
    IF impl = "wcs" THEN celsph2natsph(a, b, hdr) ELSE wt_celsph2natsph(a, b, hdr, np_bound)

\* The stage function named f
RunStage(f, a, b, np) ==
    CASE f = "pix2proj" -> Run_pix2proj(a, b, np)
      [] f = "proj2pix" -> Run_proj2pix(a, b, np)
      [] f = "proj2natsph" -> Run_proj2natsph(a, b, np)
      [] f = "natsph2proj" -> Run_natsph2proj(a, b, np)
      [] f = "natsph2celsph" -> Run_natsph2celsph(a, b, np)
      [] f = "celsph2natsph" -> Run_celsph2natsph(a, b, np)

\* The linear stages return what they are given (a Python float stays one);
\* the other stages return what numpy's functions return.
OutIsNp(f, np) == IF f \in {"pix2proj", "proj2pix"} THEN np ELSE TRUE

(* Direct calls of the six stage functions *)

\* a call of the stage function f on (a, b), o being what the function does
CallStage(f, a, b, np, o) ==
    /\ pc = "idle"
    /\ fn' = f
    /\ args' = <<a, b>>
    /\ result' = o
    /\ isnp' = OutIsNp(f, np)
    /\ pc' = "done"
    /\ UNCHANGED <<impl, np_bound, gcdist_bound, mixed, hdr, cur, calls, origin>>

Call_pix2proj == \E x \in Pixels, y \in Pixels, np \in BOOLEAN :
                    CallStage("pix2proj", x, y, np, Run_pix2proj(x, y, np))
Call_proj2pix == \E u \in PlaneCoords, v \in PlaneCoords, np \in BOOLEAN :
                    CallStage("proj2pix", u, v, np, Run_proj2pix(u, v, np))
Call_proj2natsph == \E u \in PlaneCoords, v \in PlaneCoords, np \in BOOLEAN :
                       CallStage("proj2natsph", u, v, np, Run_proj2natsph(u, v, np))
Call_natsph2proj == \E p \in Longitudes, t \in Latitudes :
                       CallStage("natsph2proj", p, t, TRUE, Run_natsph2proj(p, t, TRUE))
Call_natsph2celsph == \E p \in Longitudes, t \in Latitudes :
                         CallStage("natsph2celsph", p, t, TRUE, Run_natsph2celsph(p, t, TRUE))
Call_celsph2natsph == \E a \in Longitudes, d \in Latitudes :
                         CallStage("celsph2natsph", a, d, TRUE, Run_celsph2natsph(a, d, TRUE))

(* pix2world and world2pix, statement by statement *)

CallPipeline(f, a, b, np) ==
    /\ pc = "idle"
    /\ fn' = f
    /\ args' = <<a, b>>
    /\ cur' = <<a, b>>
    /\ isnp' = np
    /\ calls' = <<>>
    /\ pc' = "line1"
    /\ UNCHANGED <<impl, np_bound, gcdist_bound, mixed, hdr, result, origin>>

Call_pix2world == \E x \in Pixels, y \in Pixels, np \in BOOLEAN :
                     CallPipeline("pix2world", x, y, np)
Call_world2pix == \E a \in Longitudes, d \in Latitudes : CallPipeline("world2pix", a, d, TRUE)

\* One assignment "a, b = stage(a, b, hdr)" of the pipeline p, at its line,
\* o being what the stage f does on the locals: an exception of the stage
\* leaves the pipeline at once.
Statement(p, line, f, o, next) ==
    /\ fn = p
    /\ pc = line
    /\ calls' = Append(calls, StageCall(f, cur[1], cur[2]))
    /\ IF Returned(o)
       THEN /\ cur' = <<o.a, o.b>>
            /\ pc' = next
            /\ result' = result
       ELSE /\ cur' = cur
            /\ pc' = "done"
            /\ result' = o
    /\ isnp' = OutIsNp(f, isnp)
    /\ UNCHANGED <<impl, np_bound, gcdist_bound, mixed, hdr, fn, args, origin>>

ReturnStatement(p, line) ==
    /\ fn = p
    /\ pc = line
    /\ result' = Return(cur[1], cur[2])
    /\ pc' = "done"
    /\ UNCHANGED <<impl, np_bound, gcdist_bound, mixed, hdr, fn, args, isnp, cur, calls, origin>>

\* line 2 of pix2world going on to the return statement
pix2world_2_skipping ==
    Statement("pix2world", "line2", "proj2natsph",
              Run_proj2natsph(cur[1], cur[2], isnp), "line4")

pix2world_1 ==
    Statement("pix2world", "line1", "pix2proj",
              Run_pix2proj(cur[1], cur[2], isnp), "line2")
pix2world_2 ==
    Statement("pix2world", "line2", "proj2natsph",
              Run_proj2natsph(cur[1], cur[2], isnp), "line3")
pix2world_3 ==
    Statement("pix2world", "line3", "natsph2celsph",
              Run_natsph2celsph(cur[1], cur[2], isnp), "line4")
pix2world_4 == ReturnStatement("pix2world", "line4")

world2pix_1 ==
    Statement("world2pix", "line1", "celsph2natsph",
              Run_celsph2natsph(cur[1], cur[2], isnp), "line2")
world2pix_2 ==
    Statement("world2pix", "line2", "natsph2proj",
              Run_natsph2proj(cur[1], cur[2], isnp), "line3")
world2pix_3 ==
    Statement("world2pix", "line3", "proj2pix",
              Run_proj2pix(cur[1], cur[2], isnp), "line4")
world2pix_4 == ReturnStatement("world2pix", "line4")

(* The caller hands the pair a call returned to the inverse function *)

InverseOf == [pix2proj |-> "proj2pix", proj2pix |-> "pix2proj",
              proj2natsph |-> "natsph2proj", natsph2proj |-> "proj2natsph",
              natsph2celsph |-> "celsph2natsph", celsph2natsph |-> "natsph2celsph",
              pix2world |-> "world2pix", world2pix |-> "pix2world"]

InvertStage ==
    /\ pc = "done"
    /\ fn \notin {"pix2world", "world2pix"}
    /\ origin = NoCall
    /\ Returned(result)
    /\ fn' = InverseOf[fn]
    /\ args' = <<result.a, result.b>>
    /\ origin' = StageCall(fn, args[1], args[2])
    /\ result' = RunStage(InverseOf[fn], result.a, result.b, isnp)
    /\ isnp' = OutIsNp(InverseOf[fn], isnp)
    /\ UNCHANGED <<impl, np_bound, gcdist_bound, mixed, hdr, pc, cur, calls>>

InvertPipeline ==
    /\ pc = "done"
    /\ fn \in {"pix2world", "world2pix"}
    /\ origin = NoCall
    /\ Returned(result)
    /\ fn' = InverseOf[fn]
    /\ args' = <<result.a, result.b>>
    /\ cur' = <<result.a, result.b>>
    /\ origin' = StageCall(fn, args[1], args[2])
    /\ result' = Pending
    /\ calls' = <<>>
    /\ pc' = "line1"
    /\ UNCHANGED <<impl, np_bound, gcdist_bound, mixed, hdr, isnp>>

Next ==
    \/ Call_pix2proj \/ Call_proj2pix \/ Call_proj2natsph
    \/ Call_natsph2proj \/ Call_natsph2celsph \/ Call_celsph2natsph
    \/ Call_pix2world \/ Call_world2pix
    \/ pix2world_1 \/ pix2world_2 \/ pix2world_3 \/ pix2world_4
    \/ world2pix_1 \/ world2pix_2 \/ world2pix_3 \/ world2pix_4
    \/ InvertStage \/ InvertPipeline

Spec == Init /\ [][Next]_vars

---------------------------------------------------------------------------
(* A session of leastsquares2d.py: the caller holds three arrays of one     *)
(* length and calls the function on them.                                   *)

InitFit ==
    /\ impl = "leastsquares2d"
    /\ np_bound = TRUE     \* line 1 imports numpy as np
    /\ gcdist_bound = FALSE
    /\ mixed = FALSE
    /\ hdr = <<>>
    /\ fn = "none"
    /\ \E n \in 0 .. MaxSamples :
          args \in {<<x, y, z>> : x \in Arrays(XValues, n), y \in Arrays(YValues, n),
                                  z \in Arrays(ZValues, n)}
    /\ isnp = TRUE
    /\ pc = "idle"
    /\ cur = <<>>
    /\ calls = <<>>
    /\ result = Pending
    /\ origin = NoCall


Call_leastsquares2d ==
    /\ impl = "leastsquares2d"
    /\ pc = "idle"
    /\ result' = leastsquares2d(args[1], args[2], args[3])
    /\ fn' = "leastsquares2d"
    /\ pc' = "done"
    /\ UNCHANGED <<impl, np_bound, gcdist_bound, mixed, hdr, args, isnp, cur, calls, origin>>

NextFit == Call_leastsquares2d

SpecFit == InitFit /\ [][NextFit]_vars


---------------------------------------------------------------------------
(* A session of sparea.py: the caller holds the vertices of a polygon,     *)
(* calls sparea on them and then on the same vertices in reverse order.    *)

InitArea ==
    /\ impl = "sparea"
    /\ np_bound \in BOOLEAN
    /\ gcdist_bound \in BOOLEAN
    /\ mixed \in BOOLEAN
    /\ hdr = <<>>
    /\ fn = "none"
    /\ \E poly \in Polygons, R \in Radii :
          LET units == IF R = 1 THEN "deg" ELSE "rad"
          IN  /\ ~ThroughPole(poly[1], poly[2])
              \* without np and gcdist the call ends before it looks at the vertices
              /\ (np_bound /\ gcdist_bound) \/ (Len(poly[1]) <= 1 /\ ~mixed)
              /\ args = <<InUnits(poly[1], units), InUnits(poly[2], units), R, units>>
    /\ isnp = TRUE
    /\ pc = "idle"
    /\ cur = <<>>
    /\ calls = <<>>
    /\ result = Pending
    /\ origin = NoCall

Call_sparea ==
    /\ impl = "sparea"
    /\ pc = "idle"
    /\ result' = sparea(args[1], args[2], args[3], args[4], np_bound, gcdist_bound, mixed)
    /\ fn' = "sparea"
    /\ pc' = "done"
    /\ UNCHANGED <<impl, np_bound, gcdist_bound, mixed, hdr, args, isnp, cur, calls, origin>>

Reversed(list) == [n \in DOMAIN list |-> list[Len(list) + 1 - n]]

Call_sparea_reversed ==
    /\ fn = "sparea"
    /\ pc = "done"
    /\ origin = NoCall
    /\ result.kind = "scalar"
    /\ args' = <<Reversed(args[1]), Reversed(args[2]), args[3], args[4]>>
    /\ origin' = [fn |-> "sparea", args |-> args, result |-> result]
    /\ result' = sparea(Reversed(args[1]), Reversed(args[2]), args[3], args[4],
                        np_bound, gcdist_bound, mixed)
    /\ UNCHANGED <<impl, np_bound, gcdist_bound, mixed, hdr, fn, isnp, pc, cur, calls>>

NextArea == Call_sparea \/ Call_sparea_reversed

SpecArea == InitArea /\ [][NextArea]_vars

---------------------------------------------------------------------------
(* Properties *)

Pipelines == {"pix2world", "world2pix"}
StagesOf == [pix2world |-> <<"pix2proj", "proj2natsph", "natsph2celsph">>,
             world2pix |-> <<"celsph2natsph", "natsph2proj", "proj2pix">>]

\* The header holds every key in ks (upper-case names; wcs_transform.py reads
\* the lower-case ones)
HasAll(h, ks) == \A key \in ks : IF impl = "wcs" THEN Has(h, key) ELSE Has(h, LowerKey[key])
Get(h, key) == IF impl = "wcs" THEN h[key] ELSE h[LowerKey[key]]
LinearKeySet == {"CRPIX1", "CRPIX2", "CD1_1", "CD1_2", "CD2_1", "CD2_2"}
Determinant(h) == Sub(Mul(Get(h, "CD1_1"), Get(h, "CD2_2")),
                      Mul(Get(h, "CD1_2"), Get(h, "CD2_1")))
NonSingular(h) == HasAll(h, LinearKeySet) /\ Sign(Determinant(h)) # 0
Singular(h) == HasAll(h, LinearKeySet) /\ Sign(Determinant(h)) = 0

\* Sanity of the number domain: a call given finite arguments never returns
\* a value the model cannot name (NotRep); inf and nan are doubles.
IsAngle(v) == "u" \in DOMAIN v
FiniteArg(v) == IF IsAngle(v) THEN GoodAng(v) ELSE IsFinite(v)
InDomain(v) == IF IsAngle(v) THEN GoodAng(v) ELSE v # NotRep
ResultsInDomain ==
    ( /\ impl \in WcsModules /\ pc = "done" /\ Returned(result)
      /\ FiniteArg(args[1]) /\ FiniteArg(args[2]) )
        => InDomain(result.a) /\ InDomain(result.b)

\* C1: pix2world runs pix2proj, proj2natsph, natsph2celsph and world2pix runs
\* celsph2natsph, natsph2proj, proj2pix, in that order and once each: at every
\* moment the stage calls made so far are the first calls of that list, the
\* first is given the caller's arguments, every later one the pair the stage
\* before it returned, and a pipeline that returns has made all three calls
\* and returns the pair of the last.
C1_StageOrder ==
    fn \in Pipelines =>
        LET order == StagesOf[fn]
            out(i) == RunStage(calls[i].fn, calls[i].a, calls[i].b, TRUE)
        IN  /\ Len(calls) <= 3
            /\ \A i \in 1 .. Len(calls) : calls[i].fn = order[i]
            /\ Len(calls) >= 1 => <<calls[1].a, calls[1].b>> = args
            /\ \A i \in 2 .. Len(calls) :
                  /\ Returned(out(i - 1))
                  /\ <<calls[i].a, calls[i].b>> = <<out(i - 1).a, out(i - 1).b>>
            /\ (pc = "done" /\ Returned(result)) =>
                  /\ Len(calls) = 3
                  /\ result = RunStage(calls[3].fn, calls[3].a, calls[3].b, isnp)

C1_Witness ==
    /\ fn = "world2pix" /\ origin.fn = "pix2world"
    /\ pc = "done" /\ Returned(result) /\ Len(calls) = 3
    /\ impl = "wcs_transform"

\* The header is complete and names the TAN projection on both axes
IsTan(h) == /\ HasAll(h, RequiredKeys)
            /\ parse_ctype(Get(h, "CTYPE1")).projection = TAN
            /\ parse_ctype(Get(h, "CTYPE2")).projection = TAN
PlaneImage(x, y) == RunStage("pix2proj", x, y, TRUE)
OffOrigin(x, y) == <<PlaneImage(x, y).a, PlaneImage(x, y).b>> # <<Zero, Zero>>

\* C2: for a TAN header with a non-singular CD matrix and a pixel whose image
\* on the projection plane is not the origin, pix2world returns (np being
\* bound in the module), and world2pix applied to what pix2world returned
\* gives the pixel back.
C2_RoundTrip ==
    /\ ( /\ fn = "pix2world" /\ pc = "done" /\ np_bound
         /\ IsTan(hdr) /\ NonSingular(hdr) /\ OffOrigin(args[1], args[2]) )
       => Returned(result)
    /\ ( /\ fn = "world2pix" /\ origin.fn = "pix2world" /\ pc = "done"
         /\ NonSingular(hdr) /\ OffOrigin(origin.a, origin.b) )
       => /\ Returned(result)
          /\ <<result.a, result.b>> = <<origin.a, origin.b>>

\* a round trip whose celestial longitude left the principal range and whose
\* native longitude came back a whole turn away from the one that went in
C2_Witness ==
    /\ fn = "world2pix" /\ origin.fn = "pix2world" /\ pc = "done"
    /\ NonSingular(hdr)
    /\ Returned(result) /\ <<result.a, result.b>> = <<origin.a, origin.b>>
    /\ PlaneImage(origin.a, origin.b).a # Zero
    /\ args[1].k # 0
    /\ calls[2].a.c.m # 1

\* C3: with a non-zero determinant c, proj2pix undoes pix2proj and pix2proj
\* undoes proj2pix, and proj2pix(u, v) is
\* ((CD2_2*u - CD1_2*v)/c + CRPIX1, (-CD2_1*u + CD1_1*v)/c + CRPIX2).
C3_LinearInverse ==
    /\ (fn = "proj2pix" /\ origin.fn = "pix2proj" /\ NonSingular(hdr))
          => Returned(result) /\ <<result.a, result.b>> = <<origin.a, origin.b>>
    /\ (fn = "pix2proj" /\ origin.fn = "proj2pix" /\ NonSingular(hdr))
          => Returned(result) /\ <<result.a, result.b>> = <<origin.a, origin.b>>
    /\ (fn = "proj2pix" /\ pc = "done" /\ NonSingular(hdr))
          => LET c == Determinant(hdr)
                 u == args[1]
                 v == args[2]
             IN  /\ Returned(result)
                 /\ result.a = Add(Div(Sub(Mul(Get(hdr, "CD2_2"), u),
                                           Mul(Get(hdr, "CD1_2"), v)), c),
                                   Get(hdr, "CRPIX1"))
                 /\ result.b = Add(Div(Add(Mul(Neg(Get(hdr, "CD2_1")), u),
                                           Mul(Get(hdr, "CD1_1"), v)), c),
                                   Get(hdr, "CRPIX2"))

\* both directions need a sheared matrix to tell the four entries apart
C3_Witness ==
    /\ fn = "proj2pix" /\ origin.fn = "pix2proj" /\ NonSingular(hdr)
    /\ Returned(result) /\ <<result.a, result.b>> = <<origin.a, origin.b>>
    /\ Sign(Get(hdr, "CD1_2")) # 0
    /\ origin.a # origin.b


\* The projection code the stages of wcs.py read is not TAN
NonTan(h) == /\ impl = "wcs"
             /\ HasAll(h, {"CTYPE1", "CTYPE2"})
             /\ parse_ctype(Get(h, "CTYPE1")).projection # TAN
SphericalStages == {"proj2natsph", "natsph2proj", "natsph2celsph", "celsph2natsph"}

\* C4: under a projection code other than TAN, each of proj2natsph,
\* natsph2proj, natsph2celsph and celsph2natsph fails with
\* UnsupportedProjectionError.
C4_UnsupportedProjection ==
    (fn \in SphericalStages /\ pc = "done" /\ NonTan(hdr))
        => Raised(result, "UnsupportedProjectionError")

\* C5: proj2pix fails with SingularTransformError whenever the determinant
\* of the CD matrix is zero, and returns no pair.
C5_SingularRaises ==
    (fn = "proj2pix" /\ pc = "done" /\ Singular(hdr))
        => Raised(result, "SingularTransformError")

\* The keys each function requires, as the header names them
KeysOf == [pix2proj |-> LinearKeySet, proj2pix |-> LinearKeySet,
           proj2natsph |-> {"CTYPE1", "CTYPE2"}, natsph2proj |-> {"CTYPE1", "CTYPE2"},
           natsph2celsph |-> {"CTYPE1", "CTYPE2", "CRVAL1", "CRVAL2"},
           celsph2natsph |-> {"CTYPE1", "CTYPE2", "CRVAL1", "CRVAL2"}]

\* The condition under which the stage call c of a pipeline is to fail: a
\* key it requires is missing, the matrix is singular, the projection is
\* unsupported, or the native latitude is a pole of the projection.
AtPole(t) == GoodAng(t) /\ Sign(Cos(AngToRad(t))) = 0
MustFail(c) ==
    \/ ~HasAll(hdr, KeysOf[c.fn])
    \/ c.fn = "proj2pix" /\ Singular(hdr)
    \/ c.fn \in SphericalStages /\ NonTan(hdr)
    \/ c.fn = "natsph2proj" /\ AtPole(c.b)

\* C6: in pix2world and world2pix a stage that is to fail is the last stage
\* the pipeline runs, and the pipeline then returns no pair.
C6_ErrorAborts ==
    fn \in Pipelines =>
        \A i \in 1 .. Len(calls) :
            MustFail(calls[i]) =>
                /\ i = Len(calls)
                /\ pc = "done"
                /\ ~Returned(result)

\* C7: a stage function called with a header that lacks a key it requires
\* fails with MissingHeaderKeyError.
C7_MissingKeyError ==
    (fn \in DOMAIN KeysOf /\ pc = "done" /\ ~HasAll(hdr, KeysOf[fn]))
        => Raised(result, "MissingHeaderKeyError")


\* The sums of the fit over the samples with x # y, as the docstring defines them
Selected(x, y) == [n \in DOMAIN x |-> x[n] # y[n]]
FitSum(u, v) == SumProd(u, v, Selected(args[1], args[2]), Len(args[1]))
Fitted == fn = "leastsquares2d" /\ pc = "done"

\* C8: leastsquares2d returns the single sentinel, not a pair, exactly when
\* no sample has x # y, or sy is zero, or sxy is zero over those samples.
C8_Sentinel ==
    Fitted =>
        LET x == args[1]
            y == args[2]
            none == \A n \in DOMAIN x : x[n] = y[n]
        IN  (result.kind = "scalar")
               <=> (none \/ Sign(FitSum(y, y)) = 0 \/ Sign(FitSum(x, y)) = 0)

\* C9: when sy # 0, sxy # 0 and sx*sy # sxy^2 over the samples with x # y,
\* leastsquares2d returns the pair a = (sxz - sxy*syz/sy)/(sx - sxy^2/sy),
\* b = (sxz - a*sx)/sxy of those sums, the pair satisfies both normal
\* equations, and it is (a0, b0) whenever z = a0*x + b0*y on every sample.
Coefficients == {Int2Num(c) : c \in -1 .. 2}
WellPosed ==
    LET x == args[1]
        y == args[2]
    IN  /\ Sign(FitSum(y, y)) # 0
        /\ Sign(FitSum(x, y)) # 0
        /\ Mul(FitSum(x, x), FitSum(y, y)) # Sq(FitSum(x, y))
ExactFor(a0, b0) ==
    \A n \in DOMAIN args[1] :
        args[3][n] = Add(Mul(a0, args[1][n]), Mul(b0, args[2][n]))
C9_ExactFit ==
    (Fitted /\ WellPosed) =>
        LET x == args[1]
            y == args[2]
            z == args[3]
            sx == FitSum(x, x)
            sxy == FitSum(x, y)
            sxz == FitSum(x, z)
            sy == FitSum(y, y)
            syz == FitSum(y, z)
        IN  /\ Returned(result)
            /\ result.a = Div(Sub(sxz, Div(Mul(sxy, syz), sy)),
                              Sub(sx, Div(Sq(sxy), sy)))
            /\ result.b = Div(Sub(sxz, Mul(result.a, sx)), sxy)
            /\ Add(Mul(result.a, sx), Mul(result.b, sxy)) = sxz
            /\ Add(Mul(result.a, sxy), Mul(result.b, sy)) = syz
            /\ \A a0 \in Coefficients, b0 \in Coefficients :
                  ExactFor(a0, b0) => result = Return(a0, b0)

\* exact data of the line z = x - y, one sample of which has x = y
C9_Witness ==
    /\ Fitted /\ WellPosed
    /\ Len(args[1]) = 3
    /\ \E n \in 1 .. 3 : args[1][n] = args[2][n]
    /\ ExactFor(Int2Num(1), Int2Num(-1))
    /\ result = Return(Int2Num(1), Int2Num(-1))


\* C10: whenever sparea returns, the area is not negative, and sparea on the
\* same vertices in reverse order returns the same area.
AreaReturned == fn = "sparea" /\ pc = "done" /\ result.kind = "scalar"
C10_AreaUnsigned ==
    AreaReturned =>
        /\ result.a.sum # NaNSum
        /\ ~IsNegative(result.a.sum, mixed)
        /\ origin.fn = "sparea" => result = origin.result

\* a polygon with an edge along a meridian whose signed sum has excesses of
\* both signs and changed sign with the order of the vertices
C10_Witness ==
    /\ AreaReturned /\ origin.fn = "sparea"
    /\ result = origin.result
    /\ \E n \in 1 .. (Len(args[1]) - 1) : args[1][n] = args[1][n + 1] /\ args[2][n] # args[2][n + 1]
    /\ \E e \in DOMAIN result.a.sum : result.a.sum[e] > 0
    /\ \E e \in DOMAIN result.a.sum : result.a.sum[e] < 0
    /\ sparea_signed(args[1], args[2], args[3], args[4], TRUE, TRUE, mixed)
         # sparea_signed(origin.args[1], origin.args[2], args[3], args[4], TRUE, TRUE, mixed)


\* C11: a finished proj2natsph call on the projection-plane origin (0, 0),
\* under a TAN header, returns theta = 90 degrees and does so without the
\* quotient 1/r being evaluated to an infinity or a NaN.  The code has no
\* r == 0 branch: it divides by r = 0.0 and takes arctan of the infinity.
AtOrigin ==
    /\ fn = "proj2natsph"
    /\ pc = "done"
    /\ IsFinite(args[1]) /\ Sign(args[1]) = 0
    /\ IsFinite(args[2]) /\ Sign(args[2]) = 0
    /\ impl = "wcs" => (HasAll(hdr, {"CTYPE1", "CTYPE2"}) /\ ~NonTan(hdr))
    /\ Returned(result)
C11_OriginBranch ==
    AtOrigin =>
        /\ result.b = Deg90
        /\ IsFinite(InverseRadius(Mul(args[1], PiOver180),
                                  Mul(args[2], PiOver180)))

\* C12: a finished natsph2proj call whose theta is exactly +90 or -90 degrees
\* has failed with PoleSingularityError and returned no (u, v) pair, for
\* every phi.  The code has no such error: it evaluates r = 1/tan(theta) at
\* the pole and returns r*sin(phi), -r*cos(phi) like for any other theta.
CalledAtPole ==
    /\ fn = "natsph2proj"
    /\ pc = "done"
    /\ GoodAng(args[1])
    /\ AtPole(args[2])
    /\ np_bound
    /\ impl = "wcs" => (HasAll(hdr, {"CTYPE1", "CTYPE2"}) /\ ~NonTan(hdr))
C12_PoleRaises ==
    CalledAtPole =>
        /\ ~Returned(result)
        /\ Raised(result, "PoleSingularityError")

\* C13: a finished call of a stage that reads CTYPE1 and CTYPE2, under a
\* header whose two axes name different projection codes, has ended in an
\* error and returned nothing.  The code parses both codes and then uses
\* axis 1's alone (projection = projection1), so RA---TAN with DEC--SIN is
\* computed as TAN and returns.
MixedAxes(h) ==
    /\ impl = "wcs"
    /\ HasAll(h, {"CTYPE1", "CTYPE2"})
    /\ parse_ctype(Get(h, "CTYPE1")).projection
           # parse_ctype(Get(h, "CTYPE2")).projection
C13_AxesMatch ==
    (fn \in SphericalStages /\ pc = "done" /\ MixedAxes(hdr))
        => ~Returned(result)

\* C14: the longitude returned by natsph2celsph, the native longitude
\* returned by celsph2natsph and the longitude returned by pix2world lie in
\* [0, 360) degrees.  The code returns CRVAL1 + atan2(...) and
\* 180 + atan2(...) as they are, with no reduction modulo 360: the former
\* lies in (CRVAL1 - 180, CRVAL1 + 180] and the latter in (0, 360].
\* An angle in degrees is the principal value in (-180, 180] plus k turns.
InCanonicalRange(a) ==
    /\ GoodAng(a)
    /\ a.u = "deg"
    /\ IF Lower(a) THEN a.k = 1 ELSE a.k = 0
LongitudeReturned ==
    /\ fn \in {"natsph2celsph", "celsph2natsph", "pix2world"}
    /\ pc = "done"
    /\ Returned(result)
    /\ GoodAng(result.a)
C14_LongitudeRange ==
    LongitudeReturned => InCanonicalRange(result.a)
=============================================================================
